---- MODULE Spec2Model ----
(***************************************************************************)
(* Live detection session and alerting controller of the frontend:         *)
(*   hooks/useAlertSound.ts  - the alert audio engine (one Audio element,  *)
(*                             a 2000ms repeat timer, the unlock handshake)*)
(*   pages/LiveStream.tsx    - the live view: start/stop, the 1000ms status*)
(*                             poll, the effect that drives the alert      *)
(*   pages/Upload.tsx        - the upload view: one-shot analyze request   *)
(*   lib/api (App.tsx 27ff)  - getDetectionStatus, uploadFile              *)
(*                                                                         *)
(* Everything runs on one event loop: an action below is one handler, one  *)
(* timer callback or one promise continuation, run to completion together  *)
(* with the re-render and the effects React runs for its state updates.    *)
(* A JavaScript object is a record whose DOMAIN is the set of fields that  *)
(* are present, so an optional field that is missing is missing here too.  *)
(***************************************************************************)
EXTENDS Integers, Sequences, FiniteSets, TLC

VARIABLES
    mounted,             \* the view (and its hooks) is mounted
    sound,               \* the useAlertSound instance, its Audio element and its timers
    \* ---- pages/LiveStream.tsx
    activeTab, rtspUrl, cameraId, isStreaming, detectionStatus,
    prevDetectionStatus,
    poller,              \* statusInterval ref, armed poll intervals, fetches in flight
    applied,             \* history: what the settled status fetches did
    \* ---- pages/Upload.tsx
    file, status, error, result,
    upload               \* the uploadFile request in flight, number of requests,
                         \* how the last one settled

liveVars   == <<activeTab, rtspUrl, cameraId, isStreaming, detectionStatus,
                prevDetectionStatus, poller, applied>>
uploadVars == <<file, status, error, result, upload>>
vars       == <<mounted, sound, activeTab, rtspUrl, cameraId, isStreaming,
                detectionStatus, prevDetectionStatus, poller, applied,
                file, status, error, result, upload>>

----------------------------------------------------------------------------
(* Bounds *)

\* enableAlertSound calls that may be suspended at their await together
MaxUnlock == 2
\* status fetches issued over the life of a live view
MaxFetches == 3
\* upload requests issued over the life of an upload view
MaxUploads == 3

----------------------------------------------------------------------------
(* Timers and the Audio element (browser) *)

\* setInterval returns an id that no live timer and no ref still holds
FreshId(used) == CHOOSE n \in 1..(Cardinality(used) + 1) : n \notin used

\* outcomes of HTMLMediaElement.play(): started, promise rejected (autoplay
\* blocked), or a synchronous throw
PlayOutcomes == {"ok", "rejected", "throws"}

\* the three fields of the Audio element the hook touches; currentTime is 0
\* (rewound) or 1 (anywhere past the start)
NewAudio == [paused |-> TRUE, currentTime |-> 0, muted |-> FALSE]

----------------------------------------------------------------------------
(* hooks/useAlertSound.ts *)

\* the hook after its mount effect (lines 6-13): refs, the element, no timer.
\* timers = the alert intervals armed in the browser; awaiting = calls of
\* enableAlertSound suspended at line 75; last = argument of the last
\* playAlertSound call ("none" before the first); calls = what the current handler did to the engine
NewSound ==
    [alertSoundRef |-> TRUE, alertInterval |-> 0, unlockedRef |-> FALSE,
     audio |-> NewAudio, timers |-> {}, awaiting |-> 0,
     last |-> "none", calls |-> <<>>]

Quiet(s) == [s EXCEPT !.calls = <<>>]

Arg(shouldPlay) == IF shouldPlay THEN "true" ELSE "false"
CallName(shouldPlay) ==
    IF shouldPlay THEN "playAlertSound(true)" ELSE "playAlertSound(false)"

\* clearInterval(alertInterval.current)
ClearAlertInterval(s) ==
    [s EXCEPT !.timers = @ \ {s.alertInterval},
              !.calls = Append(@, "clearInterval")]

\* try { currentTime = 0; play().catch(log) } catch { log }   (38-43, 48-53)
RewindAndPlay(s, outcome) ==
    [s EXCEPT !.audio.currentTime = 0,
              !.audio.paused = IF outcome = "ok" THEN FALSE ELSE @,
              !.calls = @ \o <<"rewind", "play">>]

\* playAlertSound with a seeded fault: an existing interval is not cleared
\* before a new one is armed
playAlertSoundNoClear(s, shouldPlay, outcome) ==
    LET s0 == [s EXCEPT !.last = Arg(shouldPlay),
                        !.calls = Append(@, CallName(shouldPlay))]
    IN IF ~s0.alertSoundRef THEN s0
       ELSE IF shouldPlay
            THEN LET s2 == RewindAndPlay(s0, outcome)
                     id == FreshId(s2.timers \cup {s2.alertInterval})
                 IN [s2 EXCEPT !.alertInterval = id,
                               !.timers = @ \cup {id},
                               !.calls = Append(@, "setInterval")]
            ELSE [s0 EXCEPT !.audio.paused = TRUE,
                            !.audio.currentTime = 0,
                            !.calls = @ \o <<"pause", "rewind">>]

\* playAlertSound with a seeded fault: the stop branch pauses but does not
\* rewind
playAlertSoundNoRewind(s, shouldPlay, outcome) ==
    LET s0 == [s EXCEPT !.last = Arg(shouldPlay),
                        !.calls = Append(@, CallName(shouldPlay))]
    IN IF ~s0.alertSoundRef THEN s0
       ELSE LET s1 == IF s0.alertInterval # 0
                      THEN [ClearAlertInterval(s0) EXCEPT !.alertInterval = 0]
                      ELSE s0
            IN IF shouldPlay
               THEN LET s2 == RewindAndPlay(s1, outcome)
                        id == FreshId(s2.timers \cup {s2.alertInterval})
                    IN [s2 EXCEPT !.alertInterval = id,
                                  !.timers = @ \cup {id},
                                  !.calls = Append(@, "setInterval")]
               ELSE [s1 EXCEPT !.audio.paused = TRUE,
                               !.calls = Append(@, "pause")]

\* playAlertSound with a seeded fault: a play() that throws is not caught, so
\* the call ends before the interval is armed
playAlertSoundUncaught(s, shouldPlay, outcome) ==
    LET s0 == [s EXCEPT !.last = Arg(shouldPlay),
                        !.calls = Append(@, CallName(shouldPlay))]
    IN IF ~s0.alertSoundRef THEN s0
       ELSE LET s1 == IF s0.alertInterval # 0
                      THEN [ClearAlertInterval(s0) EXCEPT !.alertInterval = 0]
                      ELSE s0
            IN IF shouldPlay
               THEN LET s2 == RewindAndPlay(s1, outcome)
                        id == FreshId(s2.timers \cup {s2.alertInterval})
                    IN IF outcome = "throws" THEN s2
                       ELSE [s2 EXCEPT !.alertInterval = id,
                                       !.timers = @ \cup {id},
                                       !.calls = Append(@, "setInterval")]
               ELSE [s1 EXCEPT !.audio.paused = TRUE,
                               !.audio.currentTime = 0,
                               !.calls = @ \o <<"pause", "rewind">>]

\* playAlertSound(shouldPlay), lines 27-61
playAlertSound(s, shouldPlay, outcome) ==
    LET s0 == [s EXCEPT !.last = Arg(shouldPlay),
                        !.calls = Append(@, CallName(shouldPlay))]
    IN IF ~s0.alertSoundRef THEN s0                                  \* 28
       ELSE LET s1 == IF s0.alertInterval # 0                        \* 31-34
                      THEN [ClearAlertInterval(s0) EXCEPT !.alertInterval = 0]
                      ELSE s0
            IN IF shouldPlay
               THEN LET s2 == RewindAndPlay(s1, outcome)             \* 38-43
                        id == FreshId(s2.timers \cup {s2.alertInterval})
                    IN [s2 EXCEPT !.alertInterval = id,              \* 46-55
                                  !.timers = @ \cup {id},
                                  !.calls = Append(@, "setInterval")]
               ELSE [s1 EXCEPT !.audio.paused = TRUE,                \* 58-59
                               !.audio.currentTime = 0,
                               !.calls = @ \o <<"pause", "rewind">>]

\* the interval callback, lines 46-55
alertTick(s, outcome) ==
    LET s0 == [s EXCEPT !.calls = Append(@, "tick")]
    IN IF s0.alertSoundRef THEN RewindAndPlay(s0, outcome) ELSE s0

\* enableAlertSound up to its await, lines 64-75; a play() that throws ends
\* the call in the catch of lines 79-81, with the element left muted
enableAlertSound(s, outcome) ==
    LET s0 == [s EXCEPT !.calls = Append(@, "enableAlertSound")]
    IN IF s0.unlockedRef THEN s0                                     \* 65
       ELSE IF ~s0.alertSoundRef THEN s0                             \* 66-67
       ELSE [s0 EXCEPT !.audio.muted = TRUE,                         \* 71
                       !.audio.currentTime = 0,                      \* 72
                       !.audio.paused = IF outcome = "ok" THEN FALSE ELSE @,
                       !.awaiting = IF outcome = "throws" THEN @ ELSE @ + 1,  \* 75
                       !.calls = @ \o <<"mute", "rewind", "play">>]

\* enableAlertSound after its await with a seeded fault: pausing also cancels
\* the repeat interval
enableAlertSoundResumeStops(s) ==
    [s EXCEPT !.audio.paused = TRUE,
              !.audio.muted = FALSE,
              !.unlockedRef = TRUE,
              !.awaiting = @ - 1,
              !.timers = {},
              !.alertInterval = 0,
              !.calls = @ \o <<"resume", "pause", "unmute">>]

\* enableAlertSound after its await, lines 76-78; it holds the element in the
\* local `audio`, so it runs the same after the ref was cleared
enableAlertSoundResume(s) ==
    [s EXCEPT !.audio.paused = TRUE,
              !.audio.muted = FALSE,
              !.unlockedRef = TRUE,
              !.awaiting = @ - 1,
              !.calls = @ \o <<"resume", "pause", "unmute">>]

\* the cleanup with a seeded fault: the interval is not cleared
soundCleanupNoClear(s) ==
    IF s.alertSoundRef
    THEN [s EXCEPT !.audio.paused = TRUE,
                   !.alertSoundRef = FALSE,
                   !.calls = Append(@, "pause")]
    ELSE s

\* the cleanup of the mount effect, lines 15-23
soundCleanup(s) ==
    LET s1 == IF s.alertSoundRef
              THEN [s EXCEPT !.audio.paused = TRUE,
                             !.alertSoundRef = FALSE,
                             !.calls = Append(@, "pause")]
              ELSE s
    IN IF s1.alertInterval # 0 THEN ClearAlertInterval(s1) ELSE s1

\* playback moves past position zero
audioAdvance(s) == [s EXCEPT !.audio.currentTime = 1]

\* playback reaches the end of the clip: the element pauses itself
audioEnded(s) == [s EXCEPT !.audio.paused = TRUE]

----------------------------------------------------------------------------
(* lib/api: getDetectionStatus, and the backend's answers *)

Knife == [class |-> "knife", confidence |-> 92]
ObjectLists == {<<>>, <<Knife>>}

\* the bodies GET /detection-status answers with: detected, objects optional
Statuses ==
    {[detected |-> d] : d \in BOOLEAN}
    \cup {[detected |-> d, objects |-> o] : d \in BOOLEAN, o \in ObjectLists}

\* how a fetch settles: it rejects, or it resolves to a response
FetchResults ==
    {[kind |-> "rejected"], [kind |-> "response", ok |-> FALSE],
     [kind |-> "response", ok |-> TRUE]}            \* ok, body is not JSON
    \cup {[kind |-> "response", ok |-> TRUE, body |-> b] : b \in Statuses}

\* getDetectionStatus, App.tsx 73-84: throws unless the response is ok
getDetectionStatus(r) ==
    IF r.kind = "rejected" THEN [threw |-> TRUE]
    ELSE IF ~r.ok THEN [threw |-> TRUE]                              \* 80-82
    ELSE IF "body" \notin DOMAIN r THEN [threw |-> TRUE]            \* 83 rejects
    ELSE [threw |-> FALSE, value |-> r.body]

----------------------------------------------------------------------------
(* pages/LiveStream.tsx *)

Tabs == {"webcam", "rtsp"}
CameraIds == {"", "0"}
RtspUrls == {"", "rtsp://cam/stream"}

\* { ...prev, ...status }
Spread(prev, st) ==
    [k \in DOMAIN prev \cup DOMAIN st |-> IF k \in DOMAIN st THEN st[k] ELSE prev[k]]

\* the default status of the catch branch, lines 60-63
Fallback == [detected |-> FALSE, objects |-> <<>>]

\* fetchStatus with a seeded fault: a failed fetch leaves the status as it was
nextDetectionStatusKeep(prev, got) ==
    IF got.threw THEN prev ELSE Spread(prev, got.value)

\* the status fetchStatus sets once its fetch has settled, lines 46-64
nextDetectionStatus(prev, got) ==
    IF got.threw THEN Fallback ELSE Spread(prev, got.value)

\* the fetches of p that have settled
settled(p) == (1..p.issued) \ p.inflight

\* fetchStatus with a seeded fault (a sequence check the code does not have):
\* a response older than one already applied is dropped
settledStatusLatestWins(prev, got, id, p) ==
    IF \E j \in settled(p) : j > id THEN prev ELSE nextDetectionStatus(prev, got)

\* the status after fetch id of poller p has settled, lines 46-64: neither
\* the fetch's place in the order of issue nor the poller's state is consulted
settledStatus(prev, got, id, p) == nextDetectionStatus(prev, got)

QuietP(p) == [p EXCEPT !.calls = <<>>]

\* the source identifier of the selected mode, as getStreamUrl picks it,
\* lines 92-98
sourceIdentifier(tab, camera, url) == IF tab = "webcam" THEN camera ELSE url

\* clearInterval(statusInterval.current)
clearStatusInterval(p) ==
    [p EXCEPT !.timers = @ \ {p.statusInterval},
              !.calls = Append(@, <<"clearInterval", p.statusInterval>>)]

\* fetchStatus() up to its await, lines 43-46
fetchStatus(p) ==
    [p EXCEPT !.issued = @ + 1,
              !.inflight = @ \cup {p.issued + 1},
              !.calls = Append(@, <<"fetch", p.issued + 1>>)]

\* startStream with a seeded fault: the interval of the ref is not cleared
\* before the new one is armed
startStreamNoClear(p) ==
    LET p2 == fetchStatus(p)
        id == FreshId(p2.timers \cup {p2.statusInterval})
    IN [p2 EXCEPT !.statusInterval = id,
                  !.timers = @ \cup {id},
                  !.calls = Append(@, <<"setInterval", id>>)]

\* startStream with a seeded fault: no initial fetch, the first one comes with
\* the first tick
startStreamNoFetch(p) ==
    LET p1 == IF p.statusInterval # 0 THEN clearStatusInterval(p) ELSE p
        id == FreshId(p1.timers \cup {p1.statusInterval})
    IN [p1 EXCEPT !.statusInterval = id,
                  !.timers = @ \cup {id},
                  !.calls = Append(@, <<"setInterval", id>>)]

\* startStream, lines 37-71 (setIsStreaming(true) is in the actions)
startStream(p) ==
    LET p1 == IF p.statusInterval # 0 THEN clearStatusInterval(p) ELSE p   \* 38-40
        p2 == fetchStatus(p1)                                              \* 68
        id == FreshId(p2.timers \cup {p2.statusInterval})
    IN [p2 EXCEPT !.statusInterval = id,                                   \* 71
                  !.timers = @ \cup {id},
                  !.calls = Append(@, <<"setInterval", id>>)]

\* stopStream with a seeded fault: the ref is reset, the interval is not cleared
stopStreamNoClear(p) ==
    IF p.statusInterval # 0 THEN [p EXCEPT !.statusInterval = 0] ELSE p

\* stopStream, lines 76-80 (setIsStreaming(false) is in the actions)
stopStream(p) ==
    IF p.statusInterval # 0
    THEN [clearStatusInterval(p) EXCEPT !.statusInterval = 0]
    ELSE p

\* the cleanup of the settings effect, lines 24-28: clears, keeps the ref
settingsCleanup(p) ==
    IF p.statusInterval # 0 THEN clearStatusInterval(p) ELSE p

\* the settings effect with a seeded fault: it starts the stream whether or
\* not the view is streaming
settingsEffectAlways(p, streaming) == startStream(settingsCleanup(p))

\* the settings effect when activeTab, cameraId or rtspUrl changed, lines
\* 20-30: the cleanup of the previous run, then the new run
settingsEffect(p, streaming) ==
    LET p1 == settingsCleanup(p)
    IN IF streaming THEN startStream(p1) ELSE p1

\* the alert effect with a seeded fault: it only ever switches the alert on
alertEffectOnOnly(s, before, after, outcome) ==
    IF after.detected # before.detected /\ after.detected
    THEN playAlertSound(s, after.detected, outcome)
    ELSE s

\* the alert effect, lines 33-35: runs when detectionStatus.detected changed
alertEffect(s, before, after, outcome) ==
    IF after.detected # before.detected
    THEN playAlertSound(s, after.detected, outcome)
    ELSE s

----------------------------------------------------------------------------
(* lib/api: uploadFile, and the backend's answers *)

\* JavaScript null, for the state that holds an object or null
Null == [null |-> TRUE]

Gun == [class |-> "gun", confidence |-> 81]

\* the bodies POST /upload answers with: detections optional
UploadBodies ==
    {[message |-> "ok"],
     [message |-> "ok", detections |-> <<>>],
     [message |-> "ok", detections |-> <<Gun>>]}

\* how the upload's fetch settles: it rejects, or it resolves to a response;
\* a response that is not ok carries a JSON body with or without a message
UploadResults ==
    {[kind |-> "rejected"],
     [kind |-> "response", ok |-> FALSE, body |-> [message |-> "model not loaded"]],
     [kind |-> "response", ok |-> FALSE, body |-> <<>>],
     [kind |-> "response", ok |-> TRUE]}            \* ok, body is not JSON
    \cup {[kind |-> "response", ok |-> TRUE, body |-> b] : b \in UploadBodies}

\* uploadFile, App.tsx 34-49
uploadFile(r) ==
    IF r.kind = "rejected" THEN [threw |-> TRUE, message |-> "Failed to fetch"]
    ELSE IF ~r.ok
         THEN [threw |-> TRUE,
               message |-> IF "message" \in DOMAIN r.body THEN r.body.message
                                                         ELSE "Upload failed"]   \* 44-45
         ELSE IF "body" \notin DOMAIN r
              THEN [threw |-> TRUE, message |-> "Unexpected token"]             \* 48 rejects
              ELSE [threw |-> FALSE, value |-> r.body]                          \* 48

----------------------------------------------------------------------------
(* pages/Upload.tsx *)

supportedFormats ==
    {"image/jpeg", "image/png", "image/gif", "video/mp4", "video/webm",
     "video/quicktime"}
maxSize == 50 * 1024 * 1024

\* the files the user picks or drops
Photo == [type |-> "image/jpeg", size |-> 2 * 1024 * 1024]
Clip  == [type |-> "video/mp4", size |-> 20 * 1024 * 1024]
Pdf   == [type |-> "application/pdf", size |-> 1024]
Huge  == [type |-> "video/mp4", size |-> maxSize + 1]
Files == {Photo, Clip, Pdf, Huge}

\* an error message held in state (null or a string)
Msg(t) == [text |-> t]

\* validateFile with a seeded fault: the size is not checked
validateFileAnySize(f) ==
    IF f.type \notin supportedFormats
    THEN [valid |-> FALSE,
          error |-> Msg("Unsupported file type. Please upload an image or video file.")]
    ELSE [valid |-> TRUE, error |-> Null]

\* validateFile, lines 29-44: its return value and the error it sets
validateFile(f) ==
    IF f.type \notin supportedFormats
    THEN [valid |-> FALSE,
          error |-> Msg("Unsupported file type. Please upload an image or video file.")]
    ELSE IF f.size > maxSize
         THEN [valid |-> FALSE, error |-> Msg("File is too large. Maximum size is 50MB.")]
         ELSE [valid |-> TRUE, error |-> Null]

\* result?.detections && result.detections.length > 0, line 77
hasDetections(r) == "detections" \in DOMAIN r /\ Len(r.detections) > 0

\* whether the dependency result?.detections changed between two renders:
\* undefined stays undefined; an array of a new response is a new object
detectionsChanged(before, after) ==
    "detections" \in DOMAIN before \/ "detections" \in DOMAIN after

\* the alert effect when result changed, lines 75-87: the cleanup of the
\* previous run, then the new run
uploadAlertEffect(s, before, after, outcome) ==
    IF detectionsChanged(before, after)
    THEN playAlertSound(playAlertSound(s, FALSE, outcome),
                        hasDetections(after), outcome)
    ELSE s

\* the catch branch with a seeded fault: the sound is not stopped
uploadFailedSilent(s) == s

\* the engine call of the catch branch of handleUpload, lines 103-104
uploadFailed(s) == playAlertSound(s, FALSE, "ok")

----------------------------------------------------------------------------
(* The alert engine on its own: every operation the hook exposes, called in *)
(* any order                                                               *)

\* every view right after its first render, before any effect has run
InitView ==
    /\ mounted = TRUE
    /\ activeTab = "webcam" /\ rtspUrl = "" /\ cameraId = "0"     \* LiveStream 6-8
    /\ isStreaming = FALSE                                        \* 9
    /\ detectionStatus = [detected |-> FALSE]                     \* 10-13
    /\ prevDetectionStatus = FALSE                                \* 16
    /\ poller = [statusInterval |-> 0, timers |-> {}, inflight |-> {},
                 issued |-> 0, calls |-> <<>>]                    \* 15
    /\ applied = [count |-> 0, allFailed |-> TRUE, allFallback |-> TRUE]
    /\ file = Null /\ status = "idle"                             \* Upload 8-9
    /\ error = Null /\ result = Null                              \* 10-15
    /\ upload = [inflight |-> FALSE, requests |-> 0, outcome |-> "none"]

InitEngine ==
    /\ InitView
    /\ sound = NewSound

\* a step of the engine: the views' state stays, their call log starts anew
EngineOnly ==
    /\ poller' = QuietP(poller)
    /\ UNCHANGED <<activeTab, rtspUrl, cameraId, isStreaming, detectionStatus,
                   prevDetectionStatus, applied, uploadVars>>

SetAlert(b, o) ==
    /\ sound' = playAlertSound(Quiet(sound), b, o)
    /\ EngineOnly /\ UNCHANGED mounted

AlertTick(o) ==
    /\ \E id \in sound.timers : sound' = alertTick(Quiet(sound), o)
    /\ EngineOnly /\ UNCHANGED mounted

Unlock(o) ==
    /\ sound.awaiting < MaxUnlock
    /\ sound' = enableAlertSound(Quiet(sound), o)
    /\ EngineOnly /\ UNCHANGED mounted

UnlockResume ==
    /\ sound.awaiting > 0
    /\ sound' = enableAlertSoundResume(Quiet(sound))
    /\ EngineOnly /\ UNCHANGED mounted

AudioAdvance ==
    /\ ~sound.audio.paused /\ sound.audio.currentTime = 0
    /\ sound' = audioAdvance(Quiet(sound))
    /\ EngineOnly /\ UNCHANGED mounted

AudioEnded ==
    /\ ~sound.audio.paused /\ sound.audio.currentTime = 1
    /\ sound' = audioEnded(Quiet(sound))
    /\ EngineOnly /\ UNCHANGED mounted

EngineTeardown ==
    /\ mounted
    /\ mounted' = FALSE
    /\ sound' = soundCleanup(Quiet(sound))
    /\ EngineOnly

NextEngine ==
    \/ \E b \in BOOLEAN, o \in PlayOutcomes : SetAlert(b, o)
    \/ \E o \in PlayOutcomes : AlertTick(o)
    \/ \E o \in PlayOutcomes : Unlock(o)
    \/ UnlockResume
    \/ AudioAdvance
    \/ AudioEnded
    \/ EngineTeardown

SpecEngine == InitEngine /\ [][NextEngine]_vars

----------------------------------------------------------------------------
(* The live view *)

\* after the mount effects: the Audio element exists, the settings effect
\* found isStreaming false, the alert effect called playAlertSound(false)
InitLive ==
    /\ InitView
    /\ sound = playAlertSound(NewSound, FALSE, "ok")

\* toggleStream, lines 84-90
ToggleStream ==
    /\ mounted
    /\ IF isStreaming
       THEN /\ poller' = stopStream(QuietP(poller))
            /\ isStreaming' = FALSE                                  \* 81
       ELSE /\ poller.issued < MaxFetches
            /\ poller' = startStream(QuietP(poller))
            /\ isStreaming' = TRUE                                   \* 73
    /\ sound' = Quiet(sound)
    /\ UNCHANGED <<mounted, activeTab, rtspUrl, cameraId, detectionStatus,
                   prevDetectionStatus, applied, uploadVars>>

\* a tab button, lines 106-117; the tabs stay enabled while streaming
SetActiveTab(t) ==
    /\ mounted /\ t # activeTab
    /\ isStreaming => poller.issued < MaxFetches
    /\ activeTab' = t
    /\ poller' = settingsEffect(QuietP(poller), isStreaming)
    /\ sound' = Quiet(sound)
    /\ UNCHANGED <<mounted, rtspUrl, cameraId, isStreaming, detectionStatus,
                   prevDetectionStatus, applied, uploadVars>>

\* the device id input, lines 125-132: shown on the webcam tab, disabled
\* while streaming
SetCameraId(v) ==
    /\ mounted /\ activeTab = "webcam" /\ ~isStreaming /\ v # cameraId
    /\ cameraId' = v
    /\ poller' = settingsEffect(QuietP(poller), isStreaming)
    /\ sound' = Quiet(sound)
    /\ UNCHANGED <<mounted, activeTab, rtspUrl, isStreaming, detectionStatus,
                   prevDetectionStatus, applied, uploadVars>>

\* the stream URL input, lines 137-144: shown on the rtsp tab, disabled while
\* streaming
SetRtspUrl(v) ==
    /\ mounted /\ activeTab = "rtsp" /\ ~isStreaming /\ v # rtspUrl
    /\ rtspUrl' = v
    /\ poller' = settingsEffect(QuietP(poller), isStreaming)
    /\ sound' = Quiet(sound)
    /\ UNCHANGED <<mounted, activeTab, cameraId, isStreaming, detectionStatus,
                   prevDetectionStatus, applied, uploadVars>>

\* the 1000ms interval fires, line 71
PollTick ==
    /\ poller.issued < MaxFetches
    /\ \E id \in poller.timers : poller' = fetchStatus(QuietP(poller))
    /\ sound' = Quiet(sound)
    /\ UNCHANGED <<mounted, activeTab, rtspUrl, cameraId, isStreaming,
                   detectionStatus, prevDetectionStatus, applied, uploadVars>>

\* a status fetch settles and fetchStatus runs on, lines 46-64; an unmounted
\* view takes no state update and runs no effect
FetchSettle(id, r, o) ==
    /\ id \in poller.inflight
    /\ LET got  == getDetectionStatus(r)
           next == settledStatus(detectionStatus, got, id, poller)
       IN /\ o # "ok" => (mounted /\ next.detected /\ ~detectionStatus.detected)
                                     \* play() is called only when the alert goes on
          /\ poller' = [poller EXCEPT !.inflight = @ \ {id},
                                      !.calls = << <<"settle", id, got>> >>]
          /\ prevDetectionStatus' =
                 IF got.threw THEN prevDetectionStatus ELSE got.value.detected  \* 56
          /\ IF mounted
             THEN /\ detectionStatus' = next
                  /\ sound' = alertEffect(Quiet(sound), detectionStatus, next, o)
                  /\ applied' = [count |-> applied.count + 1,
                                 allFailed |-> applied.allFailed /\ got.threw,
                                 allFallback |-> applied.allFallback /\ next = Fallback]
             ELSE /\ sound' = Quiet(sound)
                  /\ UNCHANGED <<detectionStatus, applied>>
    /\ UNCHANGED <<mounted, activeTab, rtspUrl, cameraId, isStreaming, uploadVars>>

\* the view is torn down: the cleanups of the hook (useAlertSound 15-23) and
\* of the settings effect (LiveStream 24-28); the alert effect has none
LiveUnmount ==
    /\ mounted
    /\ mounted' = FALSE
    /\ sound' = soundCleanup(Quiet(sound))
    /\ poller' = settingsCleanup(QuietP(poller))
    /\ UNCHANGED <<activeTab, rtspUrl, cameraId, isStreaming, detectionStatus,
                   prevDetectionStatus, applied, uploadVars>>

NextLive ==
    \/ ToggleStream
    \/ \E t \in Tabs : SetActiveTab(t)
    \/ \E v \in CameraIds : SetCameraId(v)
    \/ \E v \in RtspUrls : SetRtspUrl(v)
    \/ PollTick
    \/ \E id \in 1..MaxFetches, r \in FetchResults, o \in PlayOutcomes :
           FetchSettle(id, r, o)
    \/ \E o \in PlayOutcomes : AlertTick(o)
    \/ AudioAdvance
    \/ AudioEnded
    \/ LiveUnmount

SpecLive == InitLive /\ [][NextLive]_vars

----------------------------------------------------------------------------
(* The upload view *)

\* after the mount effects: the Audio element exists, the alert effect found
\* no result and called playAlertSound(false)
InitUpload ==
    /\ InitView
    /\ sound = playAlertSound(NewSound, FALSE, "ok")

\* a step of the upload view that leaves the live view's state alone
UploadOnly ==
    /\ poller' = QuietP(poller)
    /\ UNCHANGED <<activeTab, rtspUrl, cameraId, isStreaming, detectionStatus,
                   prevDetectionStatus, applied>>

\* handleFileChange, lines 46-51; the input exists while no file is held
HandleFileChange(f) ==
    /\ mounted /\ file = Null
    /\ error' = validateFile(f).error
    /\ file' = IF validateFile(f).valid THEN f ELSE file
    /\ sound' = Quiet(sound)
    /\ UploadOnly /\ UNCHANGED <<mounted, status, result, upload>>

\* handleDrop, lines 53-61; the drop zone is always there
HandleDrop(f) ==
    /\ mounted
    /\ error' = validateFile(f).error
    /\ file' = IF validateFile(f).valid THEN f ELSE file
    /\ sound' = Quiet(sound)
    /\ UploadOnly /\ UNCHANGED <<mounted, status, result, upload>>

\* handleRemoveFile, lines 68-72, and the alert effect for the new result
HandleRemoveFile ==
    /\ mounted /\ file # Null
    /\ file' = Null /\ result' = Null /\ error' = Null
    /\ sound' = uploadAlertEffect(Quiet(sound), result, Null, "ok")
    /\ UploadOnly /\ UNCHANGED <<mounted, status, upload>>

\* handleUpload up to its await, lines 89-96; the button is disabled while
\* status is 'uploading'
HandleUpload ==
    /\ mounted /\ file # Null /\ status # "uploading"
    /\ upload.requests < MaxUploads
    /\ status' = "uploading" /\ error' = Null
    /\ upload' = [inflight |-> TRUE, requests |-> upload.requests + 1,
                  outcome |-> "none"]
    /\ sound' = Quiet(sound)
    /\ UploadOnly /\ UNCHANGED <<mounted, file, result>>

\* the upload settles and handleUpload runs on, lines 96-105; an unmounted
\* view takes no state update and runs no effect
UploadSettle(r, o) ==
    /\ upload.inflight
    /\ LET got == uploadFile(r)
       IN /\ upload' = [upload EXCEPT !.inflight = FALSE,
                                      !.outcome = IF got.threw THEN "threw" ELSE "resolved"]
          /\ IF got.threw
             THEN /\ sound' = uploadFailed(Quiet(sound))                 \* 104
                  /\ IF mounted
                     THEN error' = Msg(got.message) /\ status' = "error" \* 101-102
                     ELSE UNCHANGED <<error, status>>
                  /\ UNCHANGED result
             ELSE IF mounted
                  THEN /\ result' = got.value /\ status' = "success"     \* 97-98
                       /\ sound' = uploadAlertEffect(Quiet(sound), result, got.value, o)
                       /\ UNCHANGED error
                  ELSE /\ sound' = Quiet(sound)
                       /\ UNCHANGED <<result, status, error>>
    /\ UploadOnly /\ UNCHANGED <<mounted, file>>

\* the view is torn down: the cleanup of the hook (useAlertSound 15-23), then
\* the cleanup of the alert effect (Upload 84-86)
UploadUnmount ==
    /\ mounted
    /\ mounted' = FALSE
    /\ sound' = playAlertSound(soundCleanup(Quiet(sound)), FALSE, "ok")
    /\ UploadOnly /\ UNCHANGED uploadVars

NextUpload ==
    \/ \E f \in Files : HandleFileChange(f)
    \/ \E f \in Files : HandleDrop(f)
    \/ HandleRemoveFile
    \/ HandleUpload
    \/ \E r \in UploadResults, o \in PlayOutcomes : UploadSettle(r, o)
    \/ \E o \in PlayOutcomes : AlertTick(o)
    \/ AudioAdvance
    \/ AudioEnded
    \/ UploadUnmount

SpecUpload == InitUpload /\ [][NextUpload]_vars

----------------------------------------------------------------------------
(* Properties *)

CountOp(seq, op) == Cardinality({i \in 1..Len(seq) : seq[i][1] = op})
Starts(seq, x) == Len(seq) > 0 /\ seq[1] = x

\* a status fetch settles in this step while the view is mounted and Idle:
\* it was issued before the stop, no fetch is issued while Idle
StaleSettle ==
    /\ mounted /\ ~isStreaming /\ ~isStreaming'
    /\ poller'.inflight # poller.inflight
    /\ poller'.inflight \subseteq poller.inflight

\* C1: once stop has returned, a status fetch issued before it that settles
\* afterwards applies no snapshot: the visible status is unchanged and
\* playAlertSound is not called.  (SpecLive; the code applies it)
C1_StaleFetchIgnored ==
    [][StaleSettle => (detectionStatus' = detectionStatus /\ sound'.calls = <<>>)]_vars

\* C2: while the view is Idle (before any start, and after every stop)
\* neither the poll interval nor the alert repeat interval is armed.
\* (SpecLive; the code leaves the alert interval armed)
C2_NoTimerWhileIdle ==
    (mounted /\ ~isStreaming) => (poller.timers = {} /\ sound.timers = {})

\* C3: on a constructed resource the engine's phase matches the last
\* playAlertSound call: after true exactly the interval of the ref is armed,
\* the call rewound, issued play and armed it, and every tick rewinds and
\* plays again; after false no interval is armed, and the call left the
\* resource paused at position zero.  (SpecEngine)
C3_PhaseMatchesLastCall ==
    sound.alertSoundRef =>
      /\ sound.last = "true" => sound.timers = {sound.alertInterval}
      /\ sound.last = "false" => sound.timers = {}
      /\ Starts(sound.calls, "playAlertSound(true)") =>
            /\ sound.calls \in
                 {<<"playAlertSound(true)", "rewind", "play", "setInterval">>,
                  <<"playAlertSound(true)", "clearInterval", "rewind", "play",
                    "setInterval">>}
            /\ sound.audio.currentTime = 0
      /\ Starts(sound.calls, "playAlertSound(false)") =>
            /\ sound.calls \in
                 {<<"playAlertSound(false)", "pause", "rewind">>,
                  <<"playAlertSound(false)", "clearInterval", "pause", "rewind">>}
            /\ sound.audio.paused /\ sound.audio.currentTime = 0
      /\ Starts(sound.calls, "tick") =>
            /\ sound.last = "true"
            /\ sound.calls = <<"tick", "rewind", "play">>
            /\ sound.audio.currentTime = 0

\* a call with false that followed a call with true, after playback had moved on
C3_Witness ==
    /\ sound.alertSoundRef
    /\ sound.calls = <<"playAlertSound(false)", "clearInterval", "pause", "rewind">>

\* C4: at most one alert repeat interval is armed, under any interleaving of
\* playAlertSound(true/false), ticks, unlock and teardown.  (SpecEngine)
C4_AtMostOneAlertTimer == Cardinality(sound.timers) <= 1

\* playAlertSound(true) called while an interval was armed
C4_Witness ==
    /\ sound.calls = <<"playAlertSound(true)", "clearInterval", "rewind", "play",
                       "setInterval">>
    /\ Cardinality(sound.timers) = 1

\* C5: as long as every settled status fetch has failed, the number of status
\* updates applied equals the number of fetches settled, every one of them
\* set {detected: false, objects: []}, the poll interval of a streaming
\* session is armed, and no settling fetch touches the poll intervals.
\* (SpecLive)
C5_FailingFetch ==
    /\ [](mounted /\ applied.allFailed =>
            /\ applied.count = poller.issued - Cardinality(poller.inflight)
            /\ applied.allFallback
            /\ applied.count > 0 => detectionStatus = Fallback
            /\ isStreaming => poller.statusInterval \in poller.timers)
    /\ [][poller'.inflight # poller.inflight /\ poller'.inflight \subseteq poller.inflight
            => /\ poller'.timers = poller.timers
               /\ poller'.statusInterval = poller.statusInterval]_vars

\* three fetches settled, all failed, the session still polls
C5_Witness ==
    /\ mounted /\ isStreaming /\ applied.allFailed
    /\ applied.count = 3 /\ poller.inflight = {}
    /\ detectionStatus = Fallback
    /\ poller.statusInterval \in poller.timers

\* C6: a call of enableAlertSound made after an earlier call (finished, or
\* still awaiting its play request) runs no mute/play/pause/unmute cycle.
\* (SpecEngine; the code runs the cycle again while the first call awaits)
C6_SecondUnlockNoCycle ==
    [][(Starts(sound'.calls, "enableAlertSound")
          /\ (sound.unlockedRef \/ sound.awaiting > 0))
        => sound'.calls = <<"enableAlertSound">>]_vars

\* C7: in the mounted live view the last playAlertSound call carries the
\* visible detected flag, a status update that changes the flag calls
\* playAlertSound with the new flag, and the repeat interval is armed exactly
\* when the visible status has detected = true.  (SpecLive)
C7_AlertFollowsDetected ==
    mounted =>
      /\ sound.last = Arg(detectionStatus.detected)
      /\ (sound.timers # {}) <=> detectionStatus.detected
      /\ Cardinality(sound.timers) <= 1
      /\ Len(sound.calls) > 0 /\ sound.calls[1] \in {CallName(TRUE), CallName(FALSE)}
            => sound.calls[1] = CallName(detectionStatus.detected)

\* while streaming, a status with detected = false applied after one with
\* detected = true switched the alert off
C7_Witness ==
    /\ mounted /\ isStreaming /\ ~detectionStatus.detected
    /\ sound.calls = <<"playAlertSound(false)", "clearInterval", "pause", "rewind">>
    /\ sound.timers = {}

\* C8: in the mounted upload view the alert is on exactly when the held
\* result's detections list is non-empty.  (SpecUpload; after a failed upload
\* the code still holds the earlier result while the alert is off)
C8_AlertIffDetections ==
    mounted => sound.last = Arg(hasDetections(result))

\* the step in which an upload request settles as a failure
UploadFails ==
    /\ mounted /\ upload.inflight /\ ~upload'.inflight
    /\ upload'.outcome = "threw"

\* C9: when an upload fails the view ends in status 'error' with an error
\* message, playAlertSound(false) was called and no alert interval is armed,
\* whatever result was held.  (SpecUpload)
C9_FailedUploadStopsAlert ==
    [][UploadFails =>
         /\ status' = "error" /\ error' # Null
         /\ Starts(sound'.calls, "playAlertSound(false)")
         /\ sound'.last = "false" /\ sound'.timers = {}
         /\ result' = result]_vars

\* a failed upload while the held result had detections and the alert was on
C9_Witness ==
    /\ mounted /\ status = "error" /\ error # Null /\ hasDetections(result)
    /\ upload.outcome = "threw"
    /\ sound.calls = <<"playAlertSound(false)", "clearInterval", "pause", "rewind">>
    /\ sound.timers = {}

\* the step in which a setting changes while the session is Streaming
Reconfigure ==
    /\ mounted /\ isStreaming
    /\ activeTab' # activeTab \/ cameraId' # cameraId \/ rtspUrl' # rtspUrl

\* C10 as claimed: on a change of mode, device id or URL while Streaming the
\* old poll interval is cancelled exactly once, before the new one is armed,
\* and two poll intervals are never armed together.  (SpecLive; the code
\* calls clearInterval on the old interval twice)
C10_CancelledExactlyOnce ==
    [][Reconfigure =>
         /\ CountOp(poller'.calls, "clearInterval") = 1
         /\ poller'.calls[1] = <<"clearInterval", poller.statusInterval>>
         /\ CountOp(poller'.calls, "setInterval") = 1
         /\ Cardinality(poller'.timers) <= 1]_vars

\* C10 as amended: the old interval is armed when the setting changes; the
\* step calls clearInterval on it twice (effect cleanup, then startStream),
\* issues one fetch and then arms one new interval, which is the only one
\* armed afterwards; and in every state at most one poll interval is armed.
C10_OldClearedBeforeNew ==
    /\ [](Cardinality(poller.timers) <= 1)
    /\ [][Reconfigure =>
            LET old == poller.statusInterval
                new == poller'.statusInterval
            IN /\ poller.timers = {old}
               /\ new # old
               /\ poller'.calls = << <<"clearInterval", old>>, <<"clearInterval", old>>,
                                     <<"fetch", poller'.issued>>, <<"setInterval", new>> >>
               /\ poller'.timers = {new}]_vars

\* the mode was switched while streaming: the log of that step
C10_Witness ==
    /\ mounted /\ isStreaming /\ activeTab = "rtsp"
    /\ Len(poller.calls) = 4
    /\ poller.calls[1][1] = "clearInterval" /\ poller.calls[4][1] = "setInterval"
    /\ poller.timers = {poller.statusInterval}

\* C11 as claimed: the view goes from Idle to Streaming only with a non-empty
\* source identifier for the selected mode.  (SpecLive; startStream checks
\* nothing)
C11_StartNeedsSource ==
    [][(~isStreaming /\ isStreaming')
         => sourceIdentifier(activeTab, cameraId, rtspUrl) # ""]_vars

\* the last status fetch settled in this state with a parsed body
SettledWithBody ==
    /\ Len(poller.calls) = 1 /\ poller.calls[1][1] = "settle"
    /\ ~poller.calls[1][3].threw

\* C12 as claimed: right after a successful poll result is applied, the
\* visible status is exactly that result.  (SpecLive; the code spreads the
\* result over the previous status)
C12_SnapshotReplaces ==
    (mounted /\ SettledWithBody) => detectionStatus = poller.calls[1][3].value

Has(seq, x) == \E i \in 1..Len(seq) : seq[i] = x

\* the step in which the live view is torn down while Streaming
TeardownWhileStreaming == mounted /\ isStreaming /\ ~mounted'

\* C13 as claimed: the teardown of a Streaming view cancels the poll
\* interval, calls playAlertSound(false), and leaves no alert interval armed
\* and the audio paused.  (SpecLive; the alert effect has no cleanup, so
\* playAlertSound is not called)
C13_TeardownCallsSetAlert ==
    [][TeardownWhileStreaming =>
         /\ poller'.timers = {}
         /\ Has(sound'.calls, "playAlertSound(false)")
         /\ sound'.timers = {} /\ sound'.audio.paused]_vars

\* C13 as amended: the teardown clears the poll interval (cleanup of the
\* settings effect) and the hook's own cleanup pauses the audio and clears
\* the alert interval, without a playAlertSound call; from then on no interval
\* is armed, the audio is paused, no fetch is issued, and a status fetch that
\* settles changes neither the status nor the engine.
C13_TeardownSilences ==
    /\ [](~mounted => /\ poller.timers = {} /\ sound.timers = {}
                      /\ sound.audio.paused /\ ~sound.alertSoundRef)
    /\ [][TeardownWhileStreaming =>
            /\ poller'.calls = << <<"clearInterval", poller.statusInterval>> >>
            /\ sound'.calls = IF sound.alertInterval # 0
                              THEN <<"pause", "clearInterval">> ELSE <<"pause">>]_vars
    /\ [][~mounted => /\ detectionStatus' = detectionStatus
                      /\ poller'.issued = poller.issued
                      /\ sound'.calls = <<>>]_vars

\* a status fetch settled after the teardown of a Streaming view whose alert
\* was on
C13_Witness ==
    /\ ~mounted /\ isStreaming /\ detectionStatus.detected
    /\ Len(poller.calls) = 1 /\ poller.calls[1][1] = "settle"
    /\ sound.timers = {} /\ sound.audio.paused

ValidationErrors ==
    {Msg("Unsupported file type. Please upload an image or video file."),
     Msg("File is too large. Maximum size is 50MB.")}

\* C14: the held file is always of a supported type and at most 50MB, every
\* upload request is issued for such a held file, and a step that sets a
\* validation error leaves the held file, the result, the status and the
\* requests as they were.  (SpecUpload)
C14_InvalidFileNeverHeld ==
    /\ [](file # Null => (file.type \in supportedFormats /\ file.size <= maxSize))
    /\ [][upload'.requests # upload.requests =>
            /\ file # Null /\ file' = file
            /\ file.type \in supportedFormats /\ file.size <= maxSize]_vars
    /\ [][(error' \in ValidationErrors /\ error' # error) =>
            /\ file' = file /\ result' = result
            /\ status' = status /\ upload' = upload]_vars

\* an oversized file was dropped on a view that holds a file and its result
C14_Witness ==
    /\ mounted /\ file = Photo /\ status = "success" /\ result # Null
    /\ error = Msg("File is too large. Maximum size is 50MB.")

\* C15: in the mounted live view at most one poll interval is armed, one is
\* armed exactly when the view is Streaming, and it is the one the ref
\* holds.  (SpecLive)
C15_OnePollIntervalIffStreaming ==
    /\ Cardinality(poller.timers) <= 1
    /\ mounted =>
         /\ (poller.timers # {}) <=> isStreaming
         /\ isStreaming => poller.timers = {poller.statusInterval}
         /\ ~isStreaming => poller.statusInterval = 0

\* Idle again after a start, a restart by a change of mode, and a stop
C15_Witness ==
    /\ mounted /\ ~isStreaming /\ activeTab = "rtsp"
    /\ poller.issued >= 2 /\ poller.timers = {}
    /\ Len(poller.calls) = 1 /\ poller.calls[1][1] = "clearInterval"

\* the handler that just ran issued play() and the element is still paused:
\* the request failed (a play() that starts leaves the element playing)
FailedPlayIn(s) ==
    /\ s.alertSoundRef
    /\ Has(s.calls, "play")
    /\ s.audio.paused

\* C16: a play request that fails, by a rejected promise or by a throw, is
\* not raised to the caller and changes nothing else.  Issued by
\* playAlertSound(true), the call still runs to its end and arms the
\* interval, ending exactly as a call whose play() started, except that the
\* element is paused; issued by a tick, the step changes only the position
\* (rewound) and the interval stays armed; every later tick rewinds and
\* issues play again.  (SpecEngine)
C16_FailedPlayIsContained ==
    /\ []((FailedPlayIn(sound) /\ Starts(sound.calls, "playAlertSound(true)")) =>
            /\ sound.calls[Len(sound.calls)] = "setInterval"
            /\ sound.timers = {sound.alertInterval}
            /\ sound.last = "true")
    /\ []((FailedPlayIn(sound) /\ Starts(sound.calls, "tick")) =>
            sound.timers = {sound.alertInterval})
    /\ [][(FailedPlayIn(sound') /\ Starts(sound'.calls, "playAlertSound(true)")) =>
            [sound' EXCEPT !.audio.paused = FALSE]
              = playAlertSound(Quiet(sound), TRUE, "ok")]_vars
    /\ [][(FailedPlayIn(sound') /\ Starts(sound'.calls, "tick")) =>
            sound' = [sound EXCEPT !.calls = <<"tick", "rewind", "play">>,
                                   !.audio.currentTime = 0]]_vars
    /\ [][(sound.alertSoundRef /\ sound.timers # {} /\ Starts(sound'.calls, "tick")) =>
            /\ sound'.calls = <<"tick", "rewind", "play">>
            /\ sound'.audio.currentTime = 0
            /\ sound'.timers = sound.timers]_vars

\* a tick whose play() failed, the interval still armed for the next one
C16_Witness ==
    /\ FailedPlayIn(sound)
    /\ sound.calls = <<"tick", "rewind", "play">>
    /\ sound.last = "true"
    /\ sound.timers = {sound.alertInterval}

\* the view goes from Idle to Streaming in this step
StartFromIdle == mounted /\ ~isStreaming /\ isStreaming'

\* exactly one of the fetches in flight settles in this step
SettleStep ==
    /\ poller'.inflight \subseteq poller.inflight
    /\ Cardinality(poller.inflight \ poller'.inflight) = 1
    /\ Len(poller'.calls) = 1 /\ poller'.calls[1][1] = "settle"
    /\ poller'.calls[1][2] \in poller.inflight \ poller'.inflight

\* C17: a start from Idle issues exactly one status fetch in the start
\* handler itself, while no poll interval is armed, and arms the interval
\* after it; the visible status changes only in the step in which a fetch
\* settles, and in the mounted view every settled fetch has applied exactly
\* one update (updates applied = fetches issued - fetches in flight).
\* (SpecLive)
C17_FetchThenArmAndOneUpdatePerFetch ==
    /\ [](mounted => applied.count = poller.issued - Cardinality(poller.inflight))
    /\ [][StartFromIdle =>
            /\ poller.timers = {}
            /\ poller'.calls = << <<"fetch", poller.issued + 1>>,
                                  <<"setInterval", poller'.statusInterval>> >>
            /\ poller'.issued = poller.issued + 1
            /\ poller'.inflight = poller.inflight \cup {poller.issued + 1}
            /\ poller'.timers = {poller'.statusInterval}
            /\ detectionStatus' = detectionStatus /\ applied' = applied]_vars
    /\ [][(detectionStatus' # detectionStatus \/ applied' # applied) =>
            (SettleStep /\ applied'.count = applied.count + 1)]_vars
    /\ [][(mounted /\ poller'.inflight # poller.inflight
                   /\ poller'.inflight \subseteq poller.inflight) =>
            (SettleStep /\ applied'.count = applied.count + 1)]_vars

\* the fetch issued by the start has settled and was applied, before any tick
C17_Witness ==
    /\ mounted /\ isStreaming
    /\ poller.issued = 1 /\ poller.inflight = {} /\ applied.count = 1
    /\ poller.calls = << <<"settle", 1, [threw |-> FALSE,
                           value |-> [detected |-> TRUE, objects |-> <<Knife>>]]>> >>
    /\ detectionStatus.detected

\* stopStream ran in this step
StopStep == mounted /\ isStreaming /\ ~isStreaming'

\* C18: stopStream cancels the poll interval at once, whatever is in flight:
\* the stop itself issues no fetch and leaves the fetches in flight alone,
\* no interval is armed while Idle, and a fetch is issued only by a start or
\* by a tick of a Streaming view, so none is issued between a stop and the
\* next start.  (SpecLive)
C18_NoFetchAfterStop ==
    /\ []((mounted /\ ~isStreaming) => poller.timers = {})
    /\ [][StopStep =>
            /\ poller'.timers = {}
            /\ poller'.issued = poller.issued
            /\ poller'.inflight = poller.inflight
            /\ poller'.calls = << <<"clearInterval", poller.statusInterval>> >>]_vars
    /\ [][(~isStreaming /\ ~isStreaming') => poller'.issued = poller.issued]_vars
    /\ [][poller'.issued # poller.issued =>
            /\ mounted /\ isStreaming'
            /\ poller'.issued = poller.issued + 1]_vars

\* just stopped with two fetches still in flight
C18_Witness ==
    /\ mounted /\ ~isStreaming
    /\ Cardinality(poller.inflight) >= 2
    /\ Len(poller.calls) = 1 /\ poller.calls[1][1] = "clearInterval"
    /\ poller.timers = {}

\* C19: the poller has no sequence protection.  Whatever the order of issue,
\* the fetch that settles in a step of the mounted view is applied in that
\* step: the status becomes the outcome of that fetch merged over the
\* current one, even when a fetch issued later has settled already, and
\* playAlertSound is called with the new detected flag when it changed.
\* (SpecLive)
C19_AppliedInSettleOrder ==
    [][(mounted /\ SettleStep) =>
         LET got == poller'.calls[1][3]
         IN /\ detectionStatus' = nextDetectionStatus(detectionStatus, got)
            /\ (detectionStatus'.detected # detectionStatus.detected) =>
                  /\ Starts(sound'.calls, CallName(detectionStatus'.detected))
                  /\ sound'.last = Arg(detectionStatus'.detected)
            /\ (detectionStatus'.detected = detectionStatus.detected) =>
                  sound'.calls = <<>>]_vars

\* fetch 2 settled first and left detected false; fetch 1, issued before it,
\* settles afterwards with detected true and turns the alert on
C19_Witness ==
    /\ mounted /\ isStreaming
    /\ poller.issued = 2 /\ poller.inflight = {} /\ applied.count = 2
    /\ Len(poller.calls) = 1 /\ poller.calls[1][1] = "settle"
    /\ poller.calls[1][2] = 1
    /\ 2 \in settled(poller)
    /\ detectionStatus.detected
    /\ Starts(sound.calls, "playAlertSound(true)")
    /\ sound.timers # {}

\* playAlertSound(v) is called in this step on a constructed resource, and the
\* call before it was playAlertSound(v) too
RepeatedSetAlert(v) ==
    /\ sound.alertSoundRef
    /\ sound.last = Arg(v)
    /\ Starts(sound'.calls, CallName(v))

\* C20: playAlertSound is idempotent: a call with the value of the call
\* before it issues no rewind and no play and leaves exactly one interval
\* armed (true), or leaves no interval armed and the resource paused at
\* position zero (false).  (SpecEngine; the code restarts playback on a
\* repeated true)
C20_SetAlertIdempotent ==
    [][/\ RepeatedSetAlert(TRUE) =>
            /\ ~Has(sound'.calls, "rewind")
            /\ ~Has(sound'.calls, "play")
            /\ Cardinality(sound'.timers) = 1
            /\ sound'.audio = sound.audio
       /\ RepeatedSetAlert(FALSE) =>
            /\ sound'.timers = {}
            /\ sound'.audio.paused
            /\ sound'.audio.currentTime = 0]_vars

\* what playAlertSound owns: the interval, the ref that holds it, and the
\* value of the last call
AlertTimerState(s) == <<s.timers, s.alertInterval, s.last>>

\* C21: enableAlertSound never arms or cancels the alert repeat interval,
\* neither up to its await nor after it; when it runs on after its play
\* request settled, the resource is unmuted and unlockedRef is true; and with
\* calls of playAlertSound in between, the interval is the one the last of
\* them left (armed after true, none after false).  (SpecEngine)
C21_UnlockLeavesTimerAlone ==
    /\ [][Starts(sound'.calls, "enableAlertSound") =>
            AlertTimerState(sound') = AlertTimerState(sound)]_vars
    /\ [][Starts(sound'.calls, "resume") =>
            /\ AlertTimerState(sound') = AlertTimerState(sound)
            /\ sound.awaiting > 0
            /\ ~sound'.audio.muted
            /\ sound'.unlockedRef]_vars
    /\ []((sound.alertSoundRef /\ (sound.awaiting > 0 \/ Starts(sound.calls, "resume"))) =>
            /\ sound.last = "true" => sound.timers = {sound.alertInterval}
            /\ sound.last = "false" => sound.timers = {}
            /\ sound.last = "none" => sound.timers = {})

\* enableAlertSound has run on after its await while the alert is on: the
\* interval armed by playAlertSound(true) is still the one armed
C21_Witness ==
    /\ sound.alertSoundRef
    /\ sound.calls = <<"resume", "pause", "unmute">>
    /\ sound.unlockedRef /\ ~sound.audio.muted
    /\ sound.last = "true"
    /\ sound.timers = {sound.alertInterval}

\* C22: in the mounted upload view a result is held only while a file is
\* held: with no file there is no result and the alert is off (no repeat
\* interval armed, the last playAlertSound call was not with true), also
\* after an upload that was in flight at the remove-file settles.
\* (SpecUpload; the code applies the late response)
C22_ResultOnlyWithFile ==
    (mounted /\ file = Null) =>
        (result = Null /\ sound.timers = {} /\ sound.last # "true")

\* C23: whenever a view's handler, effect or repeat-interval tick issues a
\* play request, the resource has been unlocked (unlockedRef is true).
\* (SpecLive, and the same in SpecUpload; neither view calls
\* enableAlertSound)
C23_UnlockedBeforePlay ==
    (sound.alertSoundRef /\ Has(sound.calls, "play")) => sound.unlockedRef

====
